---- MODULE Spec2Model ----
(***************************************************************************)
(* clockwatch_tui: a terminal stopwatch.  The model follows src/main.rs:   *)
(* main() creates the App, App::run is the render loop (measure dt, drain  *)
(* the pending terminal events, update the Clockwatch, draw), and the      *)
(* terminal driver (crossterm/ratatui) is the environment: it delivers     *)
(* events, tells the time and may fail.                                    *)
(*                                                                         *)
(* Durations and instants are integers counting microseconds.             *)
(***************************************************************************)
EXTENDS Integers, Sequences, FiniteSets, TLC

\* ---------------------------------------------------------------- bounds
\* wall-clock time advances in steps of TickUs microseconds, MaxTicks times
TickUs == 500000
MaxTicks == 3
\* events the terminal delivers during one run, and how many may be pending at
\* once (the program sees the queue through poll and read only: whether it is
\* empty, and its head; events are delivered while a drain is going on)
MaxEvents == 3
MaxQueue == 1
\* the largest hour count handed to the formatter on its own
MaxHours == 123

VARIABLES
    pc,            \* position of the single thread in main / App::run / handle_events
    app,           \* struct App { clock, exit, last_frame }
    dt,            \* the local `dt` of App::run (0 while out of scope)
    now,           \* the monotonic clock read by Instant::now() / Instant::elapsed()
    queue,         \* events pending in the terminal driver, oldest first
    arrived,       \* number of events delivered so far
    app_result,    \* the local `app_result` of main: "none", "Ok" or "Err"
    init_calls,    \* calls of ratatui::init()
    restore_calls, \* calls of ratatui::restore()
    screen,        \* the lines painted by the last successful terminal.draw
    segBase,       \* history: elapsed_time when running was last toggled (or at start)
    segSum,        \* history: sum of the dt passed to Clockwatch::update since then
    streak,        \* history: number of toggle_start_pause calls made back to back
    streakStart,   \* history: the Clockwatch before the first call of that streak
    lapLog,        \* history: elapsed_time at each call of Clockwatch::lap, in call order
    event,         \* the event returned by event::read(), until event::poll is called again
    ran,           \* history: running as it was while the time measured in dt passed
    fmt_in,        \* formatter on its own: the time to format, as its four fields
    fmt_out        \* formatter on its own: the fields computed and the text produced

vars == <<pc, app, dt, now, queue, arrived, app_result, init_calls, restore_calls,
          screen, segBase, segSum, streak, streakStart, lapLog, event, ran,
          fmt_in, fmt_out>>

\* ------------------------------------------------------- the App's fields
clock == app.clock
exit == app.exit
last_frame == app.last_frame
running == app.clock.running
elapsed_time == app.clock.elapsed_time
laps == app.clock.laps

\* ------------------------------------------------------------- Clockwatch
\* mutants of update: it never adds; it adds while paused too; it assigns
update_never(c, d) == c

update_always(c, d) == [c EXCEPT !.elapsed_time = @ + d]

update_assign(c, d) ==
    IF c.running THEN [c EXCEPT !.elapsed_time = d] ELSE c

update(c, d) ==
    IF c.running THEN [c EXCEPT !.elapsed_time = @ + d] ELSE c

\* mutant of toggle_start_pause: it only starts
toggle_start_only(c) == [c EXCEPT !.running = TRUE]

toggle_start_pause(c) == [c EXCEPT !.running = ~@]

\* mutants of lap: newest first; the list is overwritten; recording pauses
lap_front(c) == [c EXCEPT !.laps = <<c.elapsed_time>> \o @]

lap_overwrite(c) == [c EXCEPT !.laps = <<c.elapsed_time>>]

lap_pauses(c) == [c EXCEPT !.laps = Append(@, c.elapsed_time), !.running = FALSE]

\* mutant of lap: a lap is the time since the previous lap
lap_split(c) ==
    [c EXCEPT !.laps = Append(@, c.elapsed_time
                                 - (IF @ = <<>> THEN 0 ELSE @[Len(@)]))]

lap(c) == [c EXCEPT !.laps = Append(@, c.elapsed_time)]

\* ------------------------------------------------------------- formatting
Digit == <<"0", "1", "2", "3", "4", "5", "6", "7", "8", "9">>

RECURSIVE Decimal(_)
Decimal(n) == IF n < 10 THEN Digit[n + 1] ELSE Decimal(n \div 10) \o Digit[(n % 10) + 1]

RECURSIVE ZeroPad(_, _)
\* format!("{:0w}", n): at least w characters, zero-filled on the left, never cut
ZeroPad(s, w) == IF Len(s) >= w THEN s ELSE ZeroPad("0" \o s, w)

\* mutant of as_millis: whole seconds
as_millis_as_secs(d) == d \div 1000000

as_millis(d) == d \div 1000

\* the four numbers duration_into_text computes from all_millis
\* mutant of time_fields: the hours wrap at a day
time_fields_wrap_day(all_millis) ==
    [hours |-> (((all_millis \div 1000) \div 60) \div 60) % 24,
     minutes |-> ((all_millis \div 1000) \div 60) % 60,
     secs |-> (all_millis \div 1000) % 60,
     millis |-> all_millis % 1000]

time_fields(all_millis) ==
    [hours |-> ((all_millis \div 1000) \div 60) \div 60,
     minutes |-> ((all_millis \div 1000) \div 60) % 60,
     secs |-> (all_millis \div 1000) % 60,
     millis |-> all_millis % 1000]

\* format!("{:02}:{:02}:{:02}:{:03}", hours, minutes, secs, millis)
format_fields(f) ==
    ZeroPad(Decimal(f.hours), 2) \o ":" \o ZeroPad(Decimal(f.minutes), 2) \o ":"
    \o ZeroPad(Decimal(f.secs), 2) \o ":" \o ZeroPad(Decimal(f.millis), 3)

\* duration_into_text from `all_millis` on
millis_into_text(all_millis) == format_fields(time_fields(all_millis))

duration_into_text(d) == millis_into_text(as_millis(d))

RECURSIVE rev(_)
rev(s) == IF s = <<>> THEN <<>> ELSE Append(rev(Tail(s)), Head(s))

\* mutant of render: the laps in the order recorded
render_oldest_first(c) ==
    <<duration_into_text(c.elapsed_time), "Laps:">>
    \o [i \in 1..Len(c.laps) |-> duration_into_text(c.laps[i])]

\* impl Widget for &Clockwatch: the clock line, then "Laps:" and the laps, newest first
render(c) ==
    LET clock_text == <<duration_into_text(c.elapsed_time)>>
        newest_first == rev(c.laps)
        laps_text == <<"Laps:">> \o [i \in 1..Len(newest_first) |->
                                        duration_into_text(newest_first[i])]
    IN  clock_text \o laps_text

\* ----------------------------------------------------------------- events
KeyCodes == {"q", " ", "l", "x"}
KeyKinds == {"Press", "Release", "Repeat"}
KeyEvent(code, kind) == [tag |-> "Key", code |-> code, kind |-> kind]
OtherEvent == [tag |-> "Resize", code |-> "-", kind |-> "-"]
Events == {KeyEvent(c, k) : c \in KeyCodes, k \in KeyKinds} \cup {OtherEvent}

\* mutants of handle_key_pressed_event: 'q' also records a lap; 'q' flips exit
handle_key_q_laps(a, key_event) ==
    CASE key_event.code = "q" -> [a EXCEPT !.exit = TRUE, !.clock = lap(@)]
      [] key_event.code = " " -> [a EXCEPT !.clock = toggle_start_pause(@)]
      [] key_event.code = "l" -> [a EXCEPT !.clock = lap(@)]
      [] OTHER -> a

handle_key_q_flips(a, key_event) ==
    CASE key_event.code = "q" -> [a EXCEPT !.exit = ~@]
      [] key_event.code = " " -> [a EXCEPT !.clock = toggle_start_pause(@)]
      [] key_event.code = "l" -> [a EXCEPT !.clock = lap(@)]
      [] OTHER -> a

handle_key_pressed_event(a, key_event) ==
    CASE key_event.code = "q" -> [a EXCEPT !.exit = TRUE]
      [] key_event.code = " " -> [a EXCEPT !.clock = toggle_start_pause(@)]
      [] key_event.code = "l" -> [a EXCEPT !.clock = lap(@)]
      [] OTHER -> a

\* mutant of handle_event: the kind of the key event is not looked at
handle_event_any_kind(a, ev) ==
    IF ev.tag = "Key" THEN handle_key_pressed_event(a, ev) ELSE a

\* the body of the `while event::poll(..)?` loop for one event that was read
handle_event(a, ev) ==
    IF ev.tag = "Key" /\ ev.kind = "Press" THEN handle_key_pressed_event(a, ev) ELSE a

IsPress(ev, code) == ev = KeyEvent(code, "Press")

\* no event is in scope
NoEvent == [tag |-> "None", code |-> "-", kind |-> "-"]
NoInput == [h |-> 0, mi |-> 0, s |-> 0, ms |-> 0]
NoOutput == [fields |-> time_fields(0), text |-> ""]

\* ------------------------------------------------------------------- Init
Init ==
    /\ pc = "init"
    /\ app = [clock |-> [running |-> FALSE, elapsed_time |-> 0, laps |-> <<>>],
              exit |-> FALSE, last_frame |-> 0]
    /\ dt = 0
    /\ now = 0
    /\ queue = <<>>
    /\ arrived = 0
    /\ app_result = "none"
    /\ init_calls = 0
    /\ restore_calls = 0
    /\ screen = <<>>
    /\ segBase = 0
    /\ segSum = 0
    /\ streak = 0
    /\ streakStart = [running |-> FALSE, elapsed_time |-> 0, laps |-> <<>>]
    /\ lapLog = <<>>
    /\ event = NoEvent
    /\ ran = FALSE
    /\ fmt_in = NoInput
    /\ fmt_out = NoOutput

history == <<segBase, segSum, streak, streakStart, lapLog>>
terminal == <<init_calls, restore_calls, screen>>
environment == <<now, queue, arrived>>
formatter == <<fmt_in, fmt_out>>

\* ------------------------------------------------------------ environment
\* The program observes the monotonic clock only where it reads it (AppNew,
\* Elapsed, Stamp) and the driver's queue only where it polls it, so time is
\* advanced and events are delivered right before those reads: every sequence
\* of readings and of polled queues the program can see is produced.
Tick ==
    /\ pc \in {"new", "elapsed", "stamp"}
    /\ now + TickUs <= MaxTicks * TickUs
    /\ now' = now + TickUs
    /\ UNCHANGED <<formatter, event, ran, pc, app, dt, queue, arrived, app_result, terminal, history>>

Arrive ==
    /\ pc = "poll"
    /\ arrived < MaxEvents
    /\ Len(queue) < MaxQueue
    /\ \E ev \in Events : queue' = Append(queue, ev)
    /\ arrived' = arrived + 1
    /\ UNCHANGED <<formatter, event, ran, pc, app, dt, now, app_result, terminal, history>>

\* ------------------------------------------------------------------- main
TerminalInit ==
    /\ pc = "init"
    /\ init_calls' = init_calls + 1
    /\ pc' = "new"
    /\ UNCHANGED <<formatter, event, ran, app, dt, environment, app_result, restore_calls, screen, history>>

AppNew ==
    /\ pc = "new"
    /\ app' = [clock |-> [running |-> FALSE, elapsed_time |-> 0, laps |-> <<>>],
               exit |-> FALSE, last_frame |-> now]
    /\ pc' = "while"
    /\ UNCHANGED <<formatter, event, ran, dt, environment, app_result, terminal, history>>

TerminalRestore ==
    /\ pc = "restore"
    /\ restore_calls' = restore_calls + 1
    /\ pc' = "done"
    /\ UNCHANGED <<formatter, event, ran, app, dt, environment, app_result, init_calls, screen, history>>

\* --------------------------------------------------------------- App::run
\* mutant of WhileTest: the loop condition is not looked at
WhileTest_forever ==
    /\ pc = "while"
    /\ pc' = "elapsed"
    /\ UNCHANGED <<formatter, event, ran, app, dt, environment, app_result, terminal, history>>

WhileTest ==
    /\ pc = "while"
    /\ IF exit
         THEN pc' = "restore" /\ app_result' = "Ok"
         ELSE pc' = "elapsed" /\ UNCHANGED app_result
    /\ UNCHANGED <<formatter, event, ran, app, dt, environment, terminal, history>>

Elapsed ==
    /\ pc = "elapsed"
    /\ dt' = now - last_frame
    /\ ran' = running
    /\ pc' = "stamp"
    /\ UNCHANGED <<formatter, event, app, environment, app_result, terminal, history>>

Stamp ==
    /\ pc = "stamp"
    /\ app' = [app EXCEPT !.last_frame = now]
    /\ pc' = "poll"
    /\ UNCHANGED <<formatter, event, ran, dt, environment, app_result, terminal, history>>

\* mutants of Fail: the error is noted and the loop goes on; run returns the
\* error out of main (`app.run(&mut terminal)?`)
Fail_goes_on ==
    /\ pc' = IF pc = "draw" THEN "while" ELSE "update"
    /\ app_result' = "Err"
    /\ dt' = IF pc = "draw" THEN 0 ELSE dt
    /\ event' = NoEvent
    /\ ran' = IF pc = "draw" THEN FALSE ELSE ran
    /\ UNCHANGED <<formatter, app, environment, terminal, history>>

Fail_leaves_main ==
    /\ pc' = "done"
    /\ app_result' = "Err"
    /\ dt' = 0
    /\ event' = NoEvent
    /\ ran' = FALSE
    /\ UNCHANGED <<formatter, app, environment, terminal, history>>

\* a `?` that sees Err returns it from run (the locals go out of scope)
Fail ==
    /\ pc' = "restore"
    /\ app_result' = "Err"
    /\ dt' = 0
    /\ event' = NoEvent
    /\ ran' = FALSE
    /\ UNCHANGED <<formatter, app, environment, terminal, history>>

\* mutant of Poll: the drain stops after at most one look, events pending or not
Poll_gives_up ==
    /\ pc = "poll"
    /\ pc' \in IF queue # <<>> THEN {"read", "update"} ELSE {"update"}
    /\ event' = NoEvent
    /\ UNCHANGED <<formatter, ran, app, dt, environment, app_result, terminal, history>>

Poll ==
    /\ pc = "poll"
    /\ pc' = IF queue # <<>> THEN "read" ELSE "update"
    /\ event' = NoEvent
    /\ UNCHANGED <<formatter, ran, app, dt, environment, app_result, terminal, history>>

PollErr == pc = "poll" /\ Fail

Read ==
    /\ pc = "read"
    /\ queue # <<>>
    /\ LET ev == Head(queue) IN
        /\ app' = handle_event(app, ev)
        /\ IF IsPress(ev, " ")
             THEN /\ segBase' = elapsed_time
                  /\ segSum' = 0
                  /\ streak' = streak + 1
                  /\ streakStart' = IF streak = 0 THEN clock ELSE streakStart
                  /\ UNCHANGED lapLog
             ELSE IF IsPress(ev, "l")
             THEN /\ lapLog' = Append(lapLog, elapsed_time)
                  /\ streak' = 0
                  /\ streakStart' = clock'
                  /\ UNCHANGED <<segBase, segSum>>
             ELSE UNCHANGED history
    /\ queue' = Tail(queue)
    /\ event' = Head(queue)
    /\ pc' = "poll"
    /\ UNCHANGED <<formatter, ran, dt, now, arrived, app_result, terminal>>

ReadErr == pc = "read" /\ Fail

Update ==
    /\ pc = "update"
    /\ app' = [app EXCEPT !.clock = update(@, dt)]
    /\ segSum' = segSum + dt
    /\ streak' = 0
    /\ streakStart' = clock'
    /\ pc' = "draw"
    /\ UNCHANGED <<formatter, event, ran, dt, environment, app_result, terminal, segBase, lapLog>>

Draw ==
    /\ pc = "draw"
    /\ screen' = render(clock)
    /\ dt' = 0
    /\ ran' = FALSE
    /\ pc' = "while"
    /\ UNCHANGED <<formatter, event, app, environment, app_result, init_calls, restore_calls, history>>

DrawErr == pc = "draw" /\ Fail

Program ==
    \/ TerminalInit
    \/ AppNew
    \/ WhileTest
    \/ Elapsed
    \/ Stamp
    \/ Poll
    \/ PollErr
    \/ Read
    \/ ReadErr
    \/ Update
    \/ Draw
    \/ DrawErr
    \/ TerminalRestore

Next ==
    \/ Tick
    \/ Arrive
    \/ Program

Spec == Init /\ [][Next]_vars

\* the single thread always runs on: every enabled step of the program is taken
FairSpec == Spec /\ WF_vars(Program)

\* ------------------------------------------------- the formatter on its own
\* duration_into_text from `all_millis` on, applied to one time of up to
\* MaxHours hours (a Duration of that many microseconds is past the integers
\* the checker has, so the time is handed over in milliseconds)
FmtHours == {0, 1, 9, 10, 99, 100, MaxHours}
FmtInputs ==
    [h : FmtHours, mi : 0..59, s : 0..59, ms : {0, 1, 9, 10, 99, 100, 999}]

TotalMillis(in) == in.h * 3600000 + in.mi * 60000 + in.s * 1000 + in.ms

FmtInit ==
    /\ pc = "fmt"
    /\ fmt_in \in FmtInputs
    /\ fmt_out = NoOutput
    /\ app = [clock |-> [running |-> FALSE, elapsed_time |-> 0, laps |-> <<>>],
              exit |-> FALSE, last_frame |-> 0]
    /\ dt = 0
    /\ now = 0
    /\ queue = <<>>
    /\ arrived = 0
    /\ app_result = "none"
    /\ init_calls = 0
    /\ restore_calls = 0
    /\ screen = <<>>
    /\ segBase = 0
    /\ segSum = 0
    /\ streak = 0
    /\ streakStart = [running |-> FALSE, elapsed_time |-> 0, laps |-> <<>>]
    /\ lapLog = <<>>
    /\ event = NoEvent
    /\ ran = FALSE

Format ==
    /\ pc = "fmt"
    /\ fmt_out' = [fields |-> time_fields(TotalMillis(fmt_in)),
                   text |-> millis_into_text(TotalMillis(fmt_in))]
    /\ pc' = "fmt_done"
    /\ UNCHANGED <<app, dt, environment, app_result, terminal, history, event, ran, fmt_in>>

FmtSpec == FmtInit /\ [][Format]_vars

\* ----------------------------------------------------------------- claims
\* the steps of the program the claims speak about
UpdateStep == pc = "update" /\ pc' = "draw"
ReadStep == pc = "read" /\ pc' = "poll"
PressStep(code) == ReadStep /\ IsPress(Head(queue), code)
IsPrefix(s, t) == Len(s) <= Len(t) /\ SubSeq(t, 1, Len(s)) = s

\* C1: over any sequence of Clockwatch.update(dt) calls made while running
\* with no toggle in between, elapsed_time grows by exactly the sum of the dt
\* passed; each such call leaves running and laps as they were.
C1_UpdateWhileRunning ==
    /\ [](running => elapsed_time = segBase + segSum)
    /\ [][UpdateStep /\ running =>
            /\ elapsed_time' = elapsed_time + dt
            /\ running' = running
            /\ laps' = laps]_vars

C1_Witness == running /\ segBase > 0 /\ segSum > 0 /\ pc = "draw"

\* C2: over any sequence of Clockwatch.update(dt) calls made while paused,
\* whatever the dt, elapsed_time, running and laps stay as they were.
C2_UpdateWhilePaused ==
    /\ [](~running => elapsed_time = segBase)
    /\ [][UpdateStep /\ ~running => clock' = clock]_vars

C2_Witness == ~running /\ segBase > 0 /\ segSum > 0 /\ pc = "draw"

\* C3: a pressed 'q' sets exit and leaves the Clockwatch alone; a pressed space
\* flips running and changes nothing else; a pressed 'l' appends one lap and
\* changes nothing else; any other pressed key changes nothing.
C3_KeyDispatch ==
    [][ReadStep /\ Head(queue).tag = "Key" /\ Head(queue).kind = "Press" =>
        /\ last_frame' = last_frame
        /\ CASE Head(queue).code = "q" ->
                    exit' /\ clock' = clock
             [] Head(queue).code = " " ->
                    /\ running' = ~running
                    /\ elapsed_time' = elapsed_time /\ laps' = laps /\ exit' = exit
             [] Head(queue).code = "l" ->
                    /\ Len(laps') = Len(laps) + 1 /\ IsPrefix(laps, laps')
                    /\ elapsed_time' = elapsed_time /\ running' = running /\ exit' = exit
             [] OTHER -> exit' = exit /\ clock' = clock]_vars

C3_Witness == exit /\ running /\ Len(laps) = 1 /\ arrived = 3 /\ queue = <<>>

\* C4 as stated: from the moment exit is true, running, elapsed_time and laps
\* never change again and no further iteration of the loop starts.
C4_Original ==
    [][exit => clock' = clock /\ pc' \notin {"elapsed", "stamp"}]_vars

\* C4 as amended: once exit is true no further iteration of the loop starts, and
\* running, elapsed_time and laps change only inside the iteration that read the
\* 'q' (by the events still read in its drain and by its update step); after
\* that iteration they never change again.
C4_NoIterationAfterExit ==
    [][exit =>
        /\ pc' \notin {"elapsed", "stamp"}
        /\ (clock' # clock => ReadStep \/ UpdateStep)
        /\ (pc \in {"draw", "while", "restore", "done"} => clock' = clock)]_vars

C4_Witness == exit /\ pc = "done" /\ app_result = "Ok" /\ elapsed_time > 0 /\ laps # <<>>

\* C5: exit starts false, becomes true only by a pressed 'q', never returns to
\* false, no iteration starts once it is true, and from exit = TRUE the program
\* reaches its end.
C5_TerminatedAbsorbing ==
    /\ [](pc \in {"init", "new"} => ~exit)
    /\ [][~exit /\ exit' => PressStep("q")]_vars
    /\ [][exit => exit']_vars
    /\ [](exit => pc \notin {"elapsed", "stamp"})
    /\ (exit ~> pc = "done")

C5_Witness == exit /\ pc = "done" /\ arrived = 1 /\ screen # <<>>

\* C6: toggle_start_pause calls made back to back never touch elapsed_time or
\* laps, and running is back at its first value after every second call.
C6_ToggleTwice ==
    streak > 0 =>
        /\ elapsed_time = streakStart.elapsed_time
        /\ laps = streakStart.laps
        /\ running = IF streak % 2 = 0 THEN streakStart.running
                                       ELSE ~streakStart.running

C6_Witness == streak = 2 /\ running /\ elapsed_time > 0

\* C7: every lap() appends the elapsed_time of the moment of the call and leaves
\* the earlier entries, elapsed_time and running alone, so the list is the
\* elapsed_time of each call in call order.
C7_LapAppends ==
    /\ [](laps = lapLog)
    /\ [][PressStep("l") =>
            /\ laps' = Append(laps, elapsed_time)
            /\ elapsed_time' = elapsed_time
            /\ running' = running]_vars

C7_Witness == Len(laps) = 2 /\ laps[1] < laps[2] /\ running

\* C8: no step makes elapsed_time smaller.
C8_ElapsedMonotone == [][elapsed_time' >= elapsed_time]_vars

C8_Witness == elapsed_time >= 2 * TickUs /\ laps # <<>> /\ screen # <<>>

\* C9: every lap is at most the current elapsed_time, and the lap list only
\* grows at its end.
C9_LapsAreSnapshots ==
    /\ [](\A i \in 1..Len(laps) : laps[i] <= elapsed_time)
    /\ [][IsPrefix(laps, laps')]_vars

C9_Witness == Len(laps) = 2 /\ laps[2] < elapsed_time

\* C10: running changes only in the dispatch of a pressed space.
C10_RunningOnlyBySpace == [][running' # running => PressStep(" ")]_vars

C10_Witness == running /\ laps # <<>> /\ screen # <<>> /\ exit

\* C11: an event that is not a key press (a key release or repeat of any key,
\* or an event that is no key event) is taken off the queue and leaves exit,
\* running, elapsed_time and laps as they were.
C11_OnlyPressActs ==
    [][ReadStep /\ ~(Head(queue).tag = "Key" /\ Head(queue).kind = "Press") =>
        /\ queue' = Tail(queue)
        /\ exit' = exit
        /\ clock' = clock]_vars

C11_Witness ==
    /\ pc = "poll"
    /\ event = KeyEvent("q", "Release")
    /\ ~exit /\ running /\ elapsed_time > 0

\* C12: the clock is started by a space press at 0 ms, elapsed_time has
\* advanced to 1500 ms (1500000 us and less than a millisecond more) and an
\* 'l' is pressed: the view then shows the clock
\* "00:00:01:500" and the single lap "00:00:01:500", and the frame painted next
\* is that view; a lap always records the clock value on the screen at the
\* moment 'l' is pressed.
C12_LapScenario ==
    /\ [](/\ running /\ segBase = 0
          /\ Len(lapLog) = 1 /\ lapLog[1] >= 1500000 /\ lapLog[1] < 1501000
          /\ elapsed_time >= 1500000 /\ elapsed_time < 1501000
          => /\ render(clock) = <<"00:00:01:500", "Laps:", "00:00:01:500">>
             /\ (pc = "while" => screen = <<"00:00:01:500", "Laps:", "00:00:01:500">>))
    /\ [][PressStep("l") /\ screen # <<>> =>
            /\ screen[1] = duration_into_text(elapsed_time)
            /\ laps' = Append(laps, elapsed_time)]_vars

C12_Witness ==
    /\ pc = "while" /\ running /\ segBase = 0 /\ arrived = 2
    /\ screen = <<"00:00:01:500", "Laps:", "00:00:01:500">>

\* C13: a failure of event::poll, event::read or terminal.draw makes run
\* return that error at once, and nothing is tried again: after the failure no
\* event is read, no key is dispatched, update is not called and no frame is
\* drawn.
C13_FailureAborts ==
    /\ [](app_result = "Err" => pc \in {"restore", "done"})
    /\ [][app_result # "Err" /\ app_result' = "Err" =>
            /\ pc \in {"poll", "read", "draw"} /\ pc' = "restore"
            /\ app' = app /\ queue' = queue /\ screen' = screen]_vars
    /\ [][app_result = "Err" =>
            /\ app_result' = "Err"
            /\ app' = app /\ queue' = queue /\ screen' = screen]_vars

C13_Witness ==
    /\ app_result = "Err" /\ pc = "done"
    /\ queue # <<>> /\ running /\ screen # <<>>

\* C14: ratatui::init is called once, before the loop starts; ratatui::restore
\* is called once, after run has returned and never while the loop is still
\* going, whether run returned Ok (quit by 'q') or an error.
C14_InitRestoreOnce ==
    /\ [](init_calls = IF pc = "init" THEN 0 ELSE 1)
    /\ [](restore_calls = IF pc = "done" THEN 1 ELSE 0)
    /\ [](pc \in {"restore", "done"} <=> app_result \in {"Ok", "Err"})
    /\ [][restore_calls' # restore_calls =>
            pc = "restore" /\ restore_calls' = restore_calls + 1]_vars

C14_Witness ==
    /\ pc = "done" /\ app_result = "Err"
    /\ init_calls = 1 /\ restore_calls = 1 /\ screen # <<>>

\* C15: the view has one line per recorded lap below "Laps:", the newest
\* first (line i is the lap recorded i-th from last), each formatted like the
\* clock, and that view is what a draw paints; laps taken at 500 ms and then at
\* 1000 ms are shown as "00:00:01:000", "00:00:00:500".
C15_LapsNewestFirst ==
    /\ [](LET view == render(clock) IN
            /\ Len(view) = Len(laps) + 2
            /\ view[1] = duration_into_text(elapsed_time)
            /\ view[2] = "Laps:"
            /\ \A i \in 1..Len(laps) :
                  view[2 + i] = duration_into_text(laps[Len(laps) + 1 - i]))
    /\ [](/\ Len(lapLog) = 2
          /\ lapLog[1] >= 500000 /\ lapLog[1] < 501000
          /\ lapLog[2] >= 1000000 /\ lapLog[2] < 1001000
          => SubSeq(render(clock), 3, 4) = <<"00:00:01:000", "00:00:00:500">>)
    /\ [][pc = "draw" /\ pc' = "while" => screen' = render(clock)]_vars

C15_Witness ==
    /\ pc = "while" /\ Len(screen) = 4
    /\ SubSeq(screen, 3, 4) = <<"00:00:01:000", "00:00:00:500">>

\* C16: for m = h*3600000 + mi*60000 + s*1000 + ms with 0 <= mi, s < 60 and
\* 0 <= ms < 1000 the formatter computes the fields (h, mi, s, ms), which are
\* m/3600000, (m/60000) mod 60, (m/1000) mod 60 and m mod 1000, and writes them
\* as hh:mm:ss:mmm with the hours in full, also from 100 hours on.
C16_FormatDecomposes ==
    pc = "fmt_done" =>
        LET m == TotalMillis(fmt_in)
            f == fmt_out.fields
            two(n) == IF n < 10 THEN "0" \o Decimal(n) ELSE Decimal(n)
            three(n) == IF n < 100 THEN "0" \o two(n) ELSE Decimal(n)
        IN  /\ f = [hours |-> fmt_in.h, minutes |-> fmt_in.mi,
                    secs |-> fmt_in.s, millis |-> fmt_in.ms]
            /\ f.hours = m \div 3600000
            /\ f.minutes = (m \div 60000) % 60
            /\ f.secs = (m \div 1000) % 60
            /\ f.millis = m % 1000
            /\ fmt_out.text = two(fmt_in.h) \o ":" \o two(fmt_in.mi) \o ":"
                              \o two(fmt_in.s) \o ":" \o three(fmt_in.ms)
            /\ (fmt_in.h >= 100 => Len(fmt_out.text) = 13)
            /\ (fmt_in = [h |-> 100, mi |-> 0, s |-> 0, ms |-> 0]
                    => fmt_out.text = "100:00:00:000")

C16_Witness ==
    /\ pc = "fmt_done"
    /\ fmt_in = [h |-> 100, mi |-> 59, s |-> 59, ms |-> 999]
    /\ fmt_out.text = "100:59:59:999"

\* C17: the dt of an iteration is the time from the previous last_frame to the
\* new last_frame (both taken from one reading of the clock), so the dt values
\* add up to the distance between the timestamps and no time is dropped.
\* The loop reads the clock twice, once for dt and once more for last_frame,
\* and whatever passes between the two readings is in no dt.
C17_DtIsFrameTime ==
    [][pc = "stamp" /\ pc' = "poll" => last_frame' - last_frame = dt]_vars

\* C18: the time of an interval is added to elapsed_time exactly when the clock
\* was running over that interval: a dt measured while paused is not added by
\* the iteration whose drain resumes the clock, and a dt measured while running
\* is not lost by the iteration whose drain pauses it.
\* The loop measures dt before the drain and update looks at running after it.
C18_RunningTimeOnly ==
    [][UpdateStep => elapsed_time' = elapsed_time + (IF ran THEN dt ELSE 0)]_vars

C20_LapsSorted ==
    /\ \A i, j \in 1..Len(laps) : i <= j => laps[i] <= laps[j]
    /\ \A i, j \in 1..Len(laps) : i <= j => rev(laps)[i] >= rev(laps)[j]
    /\ \A i \in 1..Len(laps) :
          render(clock)[2 + i] = duration_into_text(rev(laps)[i])

C20_Witness ==
    /\ Len(laps) = 2 /\ laps[1] > 0 /\ laps[1] < laps[2]
    /\ pc = "while" /\ Len(screen) = 4 /\ elapsed_time > laps[2]

====
